---- MODULE Spec2Model ----
(***************************************************************************)
(* A model of downloads.py: the input loader (read_packages_from_file),    *)
(* the stats fetcher (get_package_stats), the recent-window calculator     *)
(* (get_recent_downloads), the number formatter (format_number) and the    *)
(* run driver main with its two loops (structured output and table).       *)
(*                                                                         *)
(* Python values are modelled as follows.  A str that the program takes    *)
(* apart (a file's text, a line, a package name) is a sequence of          *)
(* one-character strings; a str the program only builds and prints is a    *)
(* TLA+ string.  A date key is a sequence of code points, compared as      *)
(* Python compares str.  A dict is a function on its set of keys.  An      *)
(* optional value (None or a value) is <<>> or <<value>>.                  *)
(***************************************************************************)
EXTENDS Integers, Sequences, FiniteSets, TLC

VARIABLES
    environ,              \* os.environ, restricted to PEPY_API_KEY
    file_exists,          \* packages_file.exists()
    json_output,          \* --json
    days,                 \* --days
    pc,                   \* position of main
    packages,             \* main: packages
    idx,                  \* position of the for loop in packages (1-based)
    results,              \* main, structured loop: results
    table,                \* main, table loop: rows added to the rich table
    total_all_time,       \* main: total_all_time
    total_recent,         \* main: total_recent
    successful_packages,  \* main, table loop: successful_packages
    output,               \* what was printed as the report: <<>> or <<report>>
    exit_code,            \* <<>> while running, <<status>> once the process ended
    responses,            \* history: what each call of get_package_stats met
    events,               \* history: file reads, fetches, pauses, report
    replay,               \* <<>>, or <<observations of a first run>> (SpecEquiv)
    call,                 \* arguments of a single function call (SpecLoader, SpecRecent)
    ret                   \* <<>> or <<its return value>>

vars == <<environ, file_exists, json_output, days, pc, packages, idx, results,
          table, total_all_time, total_recent, successful_packages, output,
          exit_code, responses, events, replay, call, ret>>

mainVars_but_pc ==
    <<environ, file_exists, json_output, days, packages, idx, results, table,
      total_all_time, total_recent, successful_packages, output, exit_code,
      responses, events, replay>>

(***************************************************************************)
(* Bounds of the model.                                                    *)
(***************************************************************************)
MaxFileLen == 4      \* characters of a file given to the loader alone
MaxCount == 2        \* greatest per-version count of such a breakdown
MaxWindow == 3       \* greatest window size given to the calculator alone
MaxDownloads == 2    \* total_downloads of a payload is 1000 * (1..MaxDownloads)

DefaultDays == 7     \* default of --days

(***************************************************************************)
(* Python helpers.                                                         *)
(***************************************************************************)
Min(a, b) == IF a < b THEN a ELSE b
Max(a, b) == IF a > b THEN a ELSE b

EmptyDict == [k \in {} |-> 0]

\* dict.get(key, default)
DictGet(d, key, default) == IF key \in DOMAIN d THEN d[key] ELSE default

\* seq[:n] of Python, n of either sign
SliceTo(seq, n) ==
    IF n >= 0 THEN SubSeq(seq, 1, Min(n, Len(seq)))
    ELSE SubSeq(seq, 1, Max(0, Len(seq) + n))

\* the characters str.strip() removes
Whitespace == {" ", "\n", "\t"}

RECURSIVE LStrip(_)
LStrip(s) ==
    IF s # <<>> /\ Head(s) \in Whitespace THEN LStrip(Tail(s)) ELSE s

RECURSIVE RStrip(_)
RStrip(s) ==
    IF s # <<>> /\ s[Len(s)] \in Whitespace
    THEN RStrip(SubSeq(s, 1, Len(s) - 1)) ELSE s

\* a slip: line.rstrip() for line.strip()
StripRightOnly(s) == RStrip(s)

\* str.strip()
Strip(s) == RStrip(LStrip(s))

\* the lines a text file yields when iterated: each keeps its "\n"
RECURSIVE FileLines(_)
FileLines(text) ==
    IF text = <<>> THEN <<>>
    ELSE LET ends == {i \in 1..Len(text) : text[i] = "\n"}
             cut  == IF ends = {} THEN Len(text)
                     ELSE CHOOSE i \in ends : \A j \in ends : i <= j
         IN  <<SubSeq(text, 1, cut)>> \o FileLines(SubSeq(text, cut + 1, Len(text)))

\* a str the program took apart, as the str it prints
RECURSIVE Str(_)
Str(chars) == IF chars = <<>> THEN "" ELSE Head(chars) \o Str(Tail(chars))

\* Python's < on str: by code point, a proper prefix first
RECURSIVE StrLess(_, _)
StrLess(a, b) ==
    IF b = <<>> THEN FALSE
    ELSE IF a = <<>> THEN TRUE
    ELSE IF Head(a) # Head(b) THEN Head(a) < Head(b)
    ELSE StrLess(Tail(a), Tail(b))

\* a slip: sorted(keys), reverse=True forgotten
RECURSIVE SortedForward(_)
SortedForward(keys) ==
    IF keys = {} THEN <<>>
    ELSE LET m == CHOOSE x \in keys : \A y \in keys : ~StrLess(y, x)
         IN  <<m>> \o SortedForward(keys \ {m})

\* sorted(keys, reverse=True)
RECURSIVE SortedReverse(_)
SortedReverse(keys) ==
    IF keys = {} THEN <<>>
    ELSE LET m == CHOOSE x \in keys : \A y \in keys : ~StrLess(x, y)
         IN  <<m>> \o SortedReverse(keys \ {m})

\* sum(d.values())
RECURSIVE SumValues(_)
SumValues(d) ==
    IF DOMAIN d = {} THEN 0
    ELSE LET k == CHOOSE x \in DOMAIN d : TRUE
         IN  d[k] + SumValues([x \in DOMAIN d \ {k} |-> d[x]])

(***************************************************************************)
(* read_packages_from_file, past the check that the file exists:           *)
(* [line.strip() for line in f if line.strip()]                            *)
(***************************************************************************)
RECURSIVE StrippedNonEmpty(_)
StrippedNonEmpty(lines) ==
    IF lines = <<>> THEN <<>>
    ELSE LET rest == StrippedNonEmpty(Tail(lines))
         IN  IF Strip(Head(lines)) # <<>> THEN <<Strip(Head(lines))>> \o rest
             ELSE rest

read_packages_from_file(text) == StrippedNonEmpty(FileLines(text))

(***************************************************************************)
(* get_recent_downloads                                                    *)
(***************************************************************************)
RECURSIVE SumOverDates(_, _)
SumOverDates(downloads, dates) ==
    IF dates = <<>> THEN 0
    ELSE SumValues(downloads[Head(dates)]) + SumOverDates(downloads, Tail(dates))

get_recent_downloads(downloads, n) ==
    IF DOMAIN downloads = {} THEN 0
    ELSE SumOverDates(downloads, SliceTo(SortedReverse(DOMAIN downloads), n))

(***************************************************************************)
(* format_number: f"{num:,}" for num >= 0                                  *)
(***************************************************************************)
Pad3(n) ==
    IF n < 10 THEN "00" \o ToString(n)
    ELSE IF n < 100 THEN "0" \o ToString(n) ELSE ToString(n)

RECURSIVE format_number(_)
format_number(num) ==
    IF num < 1000 THEN ToString(num)
    ELSE format_number(num \div 1000) \o "," \o Pad3(num % 1000)

(***************************************************************************)
(* The remote service, as get_package_stats meets it: client.get either    *)
(* raises (no response: connection failure, timeout) or returns a response *)
(* with a status code and, for 200, a JSON object.  The objects are the    *)
(* documented payload with each key present or absent, and with or without *)
(* an "error" key of the service's own.                                    *)
(***************************************************************************)
ErrorStatuses == {401, 404, 429, 500, 503}

\* {"1": {"v1": 1}, "2": {"v1": 2, "v2": 1}}
SampleDownloads ==
    (<<1>> :> [v1 |-> 1]) @@ (<<2>> :> [v1 |-> 2, v2 |-> 1])

Payload(hasError, total, downloads) ==
    (IF hasError THEN [error |-> "maintenance"] ELSE EmptyDict)
    @@ (IF total = <<>> THEN EmptyDict ELSE [total_downloads |-> total[1]])
    @@ (IF downloads = <<>> THEN EmptyDict ELSE [downloads |-> downloads[1]])

Payloads ==
    {Payload(e, t, d) : e \in BOOLEAN,
                        t \in {<<>>} \cup {<<1000 * k>> : k \in 1..MaxDownloads},
                        d \in {<<>>, <<SampleDownloads>>}}

Raised == [raised |-> TRUE, status_code |-> 0, json |-> EmptyDict]

Responses ==
    {Raised}
    \cup {[raised |-> FALSE, status_code |-> s, json |-> EmptyDict] : s \in ErrorStatuses}
    \cup {[raised |-> FALSE, status_code |-> 200, json |-> b] : b \in Payloads}

(***************************************************************************)
(* get_package_stats, given the response client.get returned               *)
(***************************************************************************)
get_package_stats(package_name, response) ==
    IF response.status_code = 200 THEN response.json
    ELSE IF response.status_code = 404
         THEN [error |-> "Package '" \o Str(package_name) \o "' not found"]
    ELSE IF response.status_code = 401 THEN [error |-> "Invalid API key"]
    ELSE IF response.status_code = 429 THEN [error |-> "Rate limit exceeded"]
    ELSE [error |-> "API error: " \o ToString(response.status_code)]

(***************************************************************************)
(* main: the test both loops make on the dict get_package_stats returned   *)
(***************************************************************************)
IsError(stats) == "error" \in DOMAIN stats

\* f"last_{days}_days"
LastDaysKey(n) == "last_" \o ToString(n) \o "_days"

\* f"total_last_{days}_days_all_packages"
TotalLastDaysKey(n) == "total_last_" \o ToString(n) \o "_days_all_packages"

\* a slip: the totals accumulated before the test for an error
JsonAccumulatesFirst(package, stats, n, acc) ==
    LET downloads == DictGet(stats, "total_downloads", 0)
        recent == get_recent_downloads(DictGet(stats, "downloads", EmptyDict), n)
    IN  [results |-> Append(acc.results,
            IF IsError(stats)
            THEN ("package" :> Str(package)) @@ ("error" :> stats.error)
                 @@ ("total_downloads" :> <<>>) @@ (LastDaysKey(n) :> <<>>)
            ELSE ("package" :> Str(package))
                 @@ ("total_downloads" :> <<downloads>>)
                 @@ (LastDaysKey(n) :> <<recent>>)),
         total_all_time |-> acc.total_all_time + downloads,
         total_recent |-> acc.total_recent + recent]

(***************************************************************************)
(* main, structured loop: one iteration up to results.append(result).      *)
(* acc holds results, total_all_time and total_recent.                     *)
(***************************************************************************)
JsonIteration(package, stats, n, acc) ==
    IF IsError(stats)
    THEN [acc EXCEPT !.results = Append(@,
            ("package" :> Str(package)) @@ ("error" :> stats.error)
            @@ ("total_downloads" :> <<>>) @@ (LastDaysKey(n) :> <<>>))]
    ELSE LET downloads == DictGet(stats, "total_downloads", 0)
             recent == get_recent_downloads(DictGet(stats, "downloads", EmptyDict), n)
         IN  [results |-> Append(acc.results,
                 ("package" :> Str(package))
                 @@ ("total_downloads" :> <<downloads>>)
                 @@ (LastDaysKey(n) :> <<recent>>)),
              total_all_time |-> acc.total_all_time + downloads,
              total_recent |-> acc.total_recent + recent]

\* a slip: package_count counts the entries without an error
JsonDocumentCountsSuccesses(acc, pkgs, n) ==
    [packages |-> acc.results,
     summary |-> ("total_downloads_all_packages" :> acc.total_all_time)
                 @@ (TotalLastDaysKey(n) :> acc.total_recent)
                 @@ ("package_count" :>
                        Cardinality({i \in 1..Len(acc.results) :
                                        "error" \notin DOMAIN acc.results[i]}))]

\* the document main prints with json.dumps
JsonDocument(acc, pkgs, n) ==
    [packages |-> acc.results,
     summary |-> ("total_downloads_all_packages" :> acc.total_all_time)
                 @@ (TotalLastDaysKey(n) :> acc.total_recent)
                 @@ ("package_count" :> Len(pkgs))]

(***************************************************************************)
(* main, table loop: one iteration up to table.add_row.  acc holds table,  *)
(* total_all_time, total_recent and successful_packages.                   *)
(***************************************************************************)
CheckMark == "[green]ok[/green]"

\* a slip: successful_packages += 1 after the if, for every package
TableCountsEveryPackage(package, stats, n, acc) ==
    IF IsError(stats)
    THEN [acc EXCEPT !.table = Append(@,
            <<Str(package), "-", "-", "[red]" \o stats.error \o "[/red]">>),
                     !.successful_packages = @ + 1]
    ELSE LET downloads == DictGet(stats, "total_downloads", 0)
             recent == get_recent_downloads(DictGet(stats, "downloads", EmptyDict), n)
         IN  [table |-> Append(acc.table,
                 <<Str(package), format_number(downloads), format_number(recent),
                   CheckMark>>),
              total_all_time |-> acc.total_all_time + downloads,
              total_recent |-> acc.total_recent + recent,
              successful_packages |-> acc.successful_packages + 1]

\* a slip: total_recent += recent left out of the table loop
TableForgetsRecent(package, stats, n, acc) ==
    IF IsError(stats)
    THEN [acc EXCEPT !.table = Append(@,
            <<Str(package), "-", "-", "[red]" \o stats.error \o "[/red]">>)]
    ELSE LET downloads == DictGet(stats, "total_downloads", 0)
             recent == get_recent_downloads(DictGet(stats, "downloads", EmptyDict), n)
         IN  [table |-> Append(acc.table,
                 <<Str(package), format_number(downloads), format_number(recent),
                   CheckMark>>),
              total_all_time |-> acc.total_all_time + downloads,
              total_recent |-> acc.total_recent,
              successful_packages |-> acc.successful_packages + 1]

TableIteration(package, stats, n, acc) ==
    IF IsError(stats)
    THEN [acc EXCEPT !.table = Append(@,
            <<Str(package), "-", "-", "[red]" \o stats.error \o "[/red]">>)]
    ELSE LET downloads == DictGet(stats, "total_downloads", 0)
             recent == get_recent_downloads(DictGet(stats, "downloads", EmptyDict), n)
         IN  [table |-> Append(acc.table,
                 <<Str(package), format_number(downloads), format_number(recent),
                   CheckMark>>),
              total_all_time |-> acc.total_all_time + downloads,
              total_recent |-> acc.total_recent + recent,
              successful_packages |-> acc.successful_packages + 1]

\* the summary row
SummaryRow(acc) ==
    <<"[bold]TOTAL (" \o ToString(acc.successful_packages) \o " packages)[/bold]",
      "[bold green]" \o format_number(acc.total_all_time) \o "[/bold green]",
      "[bold yellow]" \o format_number(acc.total_recent) \o "[/bold yellow]",
      "">>

\* the table main prints: the rows, a section line, the summary row
TableDocument(acc) == [rows |-> acc.table, summary |-> SummaryRow(acc)]

(***************************************************************************)
(* The runs of main.                                                       *)
(***************************************************************************)
Environments ==
    {EmptyDict, [PEPY_API_KEY |-> ""], [PEPY_API_KEY |-> "secret"]}

\* the package files given to main: no package, one, "b" and "a" among blank
\* lines and blanks, and "a", "b", "a" with the last line unterminated
MainFiles ==
    { <<>>,
      <<"a", "\n">>,
      <<"b", "\n", "\n", " ", "a", " ", "\n">>,
      <<"a", "\n", " ", "b", "\n", "a">> }

Init ==
    /\ environ \in Environments
    /\ file_exists \in BOOLEAN
    /\ json_output \in BOOLEAN
    /\ days \in {1, DefaultDays}
    /\ pc = "start"
    /\ packages = <<>>
    /\ idx = 1
    /\ results = <<>>
    /\ table = <<>>
    /\ total_all_time = 0
    /\ total_recent = 0
    /\ successful_packages = 0
    /\ output = <<>>
    /\ exit_code = <<>>
    /\ responses = <<>>
    /\ events = <<>>
    /\ replay = <<>>
    /\ call = <<>>
    /\ ret = <<>>

Event(op, arg) == [op |-> op, arg |-> arg]

\* a slip: "if api_key is None" for "if not api_key"
ApiKeyIsNone(env) == "PEPY_API_KEY" \notin DOMAIN env

\* api_key = os.environ.get("PEPY_API_KEY"); if not api_key: raise typer.Exit(1)
ApiKeyMissing(env) ==
    \/ "PEPY_API_KEY" \notin DOMAIN env
    \/ env["PEPY_API_KEY"] = ""

CheckApiKey ==
    /\ pc = "start"
    /\ IF ApiKeyMissing(environ)
       THEN pc' = "exit" /\ exit_code' = <<1>>
       ELSE pc' = "read" /\ UNCHANGED exit_code
    /\ UNCHANGED <<environ, file_exists, json_output, days, packages, idx, results,
                   table, total_all_time, total_recent, successful_packages,
                   output, responses, events, replay, call, ret>>

\* packages = read_packages_from_file(packages_file), when the file is missing
ReadMissingFile ==
    /\ pc = "read"
    /\ ~file_exists
    /\ pc' = "exit"
    /\ exit_code' = <<1>>
    /\ UNCHANGED <<environ, file_exists, json_output, days, packages, idx, results,
                   table, total_all_time, total_recent, successful_packages,
                   output, responses, events, replay, call, ret>>

\* the loop main enters for json_output
LoopOf(json) == IF json THEN "json_loop" ELSE "table_loop"

\* packages = read_packages_from_file(packages_file), and the locals either
\* branch of main sets before its loop
ReadPackages ==
    /\ pc = "read"
    /\ file_exists
    /\ \E text \in MainFiles :
          /\ packages' = read_packages_from_file(text)
          /\ events' = Append(events, Event("read", <<>>))
    /\ idx' = 1
    /\ results' = <<>>
    /\ table' = <<>>
    /\ total_all_time' = 0
    /\ total_recent' = 0
    /\ successful_packages' = 0
    /\ pc' = LoopOf(json_output)
    /\ UNCHANGED <<environ, file_exists, json_output, days, output, exit_code,
                   responses, replay, call, ret>>

\* the responses the service may give to the fetch at position i
Answers(i) ==
    IF replay = <<>> THEN Responses ELSE {replay[1].responses[i]}

\* for package in packages: stats = get_package_stats(package, api_key), raising
FetchRaises ==
    /\ pc \in {"json_loop", "table_loop"}
    /\ idx <= Len(packages)
    /\ Raised \in Answers(idx)
    /\ responses' = Append(responses, Raised)
    /\ events' = Append(events, Event("fetch", packages[idx]))
    /\ pc' = "crashed"
    /\ exit_code' = <<1>>
    /\ UNCHANGED <<environ, file_exists, json_output, days, packages, idx, results,
                   table, total_all_time, total_recent, successful_packages,
                   output, replay, call, ret>>

\* a slip: a rate-limited package is fetched again at once
JsonRetriesRateLimited(stats) ==
    IF IsError(stats) /\ stats.error = "Rate limit exceeded"
    THEN "json_loop" ELSE "json_sleep"

\* where the structured loop goes after results.append(result)
JsonAfterAppend(stats) == "json_sleep"

JsonFetch ==
    /\ pc = "json_loop"
    /\ idx <= Len(packages)
    /\ \E response \in Answers(idx) \ {Raised} :
          LET stats == get_package_stats(packages[idx], response)
              acc == JsonIteration(packages[idx], stats, days,
                        [results |-> results, total_all_time |-> total_all_time,
                         total_recent |-> total_recent])
          IN  /\ responses' = Append(responses, response)
              /\ events' = Append(events, Event("fetch", packages[idx]))
              /\ results' = acc.results
              /\ total_all_time' = acc.total_all_time
              /\ total_recent' = acc.total_recent
              /\ pc' = JsonAfterAppend(stats)
    /\ UNCHANGED <<environ, file_exists, json_output, days, packages, idx, table,
                   successful_packages, output, exit_code, replay, call, ret>>

\* time.sleep(6.1), and the loop's step to the next package
JsonSleep ==
    /\ pc = "json_sleep"
    /\ events' = Append(events, Event("pause", <<>>))
    /\ idx' = idx + 1
    /\ pc' = "json_loop"
    /\ UNCHANGED <<environ, file_exists, json_output, days, packages, results,
                   table, total_all_time, total_recent, successful_packages,
                   output, exit_code, responses, replay, call, ret>>

\* print(json.dumps(output, indent=2)): the document stands for its JSON text
JsonPrint ==
    /\ pc = "json_loop"
    /\ idx > Len(packages)
    /\ output' = <<JsonDocument([results |-> results,
                                 total_all_time |-> total_all_time,
                                 total_recent |-> total_recent], packages, days)>>
    /\ events' = Append(events, Event("report", <<>>))
    /\ pc' = "done"
    /\ exit_code' = <<0>>
    /\ UNCHANGED <<environ, file_exists, json_output, days, packages, idx, results,
                   table, total_all_time, total_recent, successful_packages,
                   responses, replay, call, ret>>

\* where the table loop goes after table.add_row
TableAfterRow(stats) == "table_sleep"

TableFetch ==
    /\ pc = "table_loop"
    /\ idx <= Len(packages)
    /\ \E response \in Answers(idx) \ {Raised} :
          LET stats == get_package_stats(packages[idx], response)
              acc == TableIteration(packages[idx], stats, days,
                        [table |-> table, total_all_time |-> total_all_time,
                         total_recent |-> total_recent,
                         successful_packages |-> successful_packages])
          IN  /\ responses' = Append(responses, response)
              /\ events' = Append(events, Event("fetch", packages[idx]))
              /\ table' = acc.table
              /\ total_all_time' = acc.total_all_time
              /\ total_recent' = acc.total_recent
              /\ successful_packages' = acc.successful_packages
              /\ pc' = TableAfterRow(stats)
    /\ UNCHANGED <<environ, file_exists, json_output, days, packages, idx, results,
                   output, exit_code, replay, call, ret>>

\* a slip: time.sleep(6.1) inside the else branch, after a success only
TableSleepsAfterSuccessOnly ==
    /\ pc = "table_sleep"
    /\ events' = IF table[Len(table)][4] = CheckMark
                 THEN Append(events, Event("pause", <<>>)) ELSE events
    /\ idx' = idx + 1
    /\ pc' = "table_loop"
    /\ UNCHANGED <<environ, file_exists, json_output, days, packages, results,
                   table, total_all_time, total_recent, successful_packages,
                   output, exit_code, responses, replay, call, ret>>

\* time.sleep(6.1), and the loop's step to the next package
TableSleep ==
    /\ pc = "table_sleep"
    /\ events' = Append(events, Event("pause", <<>>))
    /\ idx' = idx + 1
    /\ pc' = "table_loop"
    /\ UNCHANGED <<environ, file_exists, json_output, days, packages, results,
                   table, total_all_time, total_recent, successful_packages,
                   output, exit_code, responses, replay, call, ret>>

\* table.add_section(), the summary row, console.print(table)
TablePrint ==
    /\ pc = "table_loop"
    /\ idx > Len(packages)
    /\ output' = <<TableDocument([table |-> table,
                                  total_all_time |-> total_all_time,
                                  total_recent |-> total_recent,
                                  successful_packages |-> successful_packages])>>
    /\ events' = Append(events, Event("report", <<>>))
    /\ pc' = "done"
    /\ exit_code' = <<0>>
    /\ UNCHANGED <<environ, file_exists, json_output, days, packages, idx, results,
                   table, total_all_time, total_recent, successful_packages,
                   responses, replay, call, ret>>

Next ==
    \/ CheckApiKey
    \/ ReadMissingFile
    \/ ReadPackages
    \/ FetchRaises
    \/ JsonFetch
    \/ JsonSleep
    \/ JsonPrint
    \/ TableFetch
    \/ TableSleep
    \/ TablePrint

Spec == Init /\ [][Next]_vars

(***************************************************************************)
(* A second run of main on the same package list, window and responses     *)
(* with the other rendering flag, after a first run has ended.             *)
(***************************************************************************)
\* which packages the loop took for successes, as the report shows it
ShownAsSuccess ==
    IF json_output
    THEN [i \in 1..Len(results) |-> "error" \notin DOMAIN results[i]]
    ELSE [i \in 1..Len(table) |-> table[i][4] = CheckMark]

Rerun ==
    /\ pc \in {"done", "crashed"}
    /\ replay = <<>>
    /\ replay' = <<[json_output |-> json_output, responses |-> responses,
                    events |-> events, successes |-> ShownAsSuccess,
                    total_all_time |-> total_all_time,
                    total_recent |-> total_recent, exit_code |-> exit_code]>>
    /\ json_output' = ~json_output
    /\ pc' = LoopOf(~json_output)
    /\ idx' = 1
    /\ results' = <<>>
    /\ table' = <<>>
    /\ total_all_time' = 0
    /\ total_recent' = 0
    /\ successful_packages' = 0
    /\ output' = <<>>
    /\ exit_code' = <<>>
    /\ responses' = <<>>
    /\ events' = <<Event("read", <<>>)>>
    /\ UNCHANGED <<environ, file_exists, days, packages, call, ret>>

NextEquiv == Next \/ Rerun

SpecEquiv == Init /\ [][NextEquiv]_vars

(***************************************************************************)
(* read_packages_from_file called alone, on every short text file.         *)
(***************************************************************************)
FileChars == {"a", "b", " ", "\n"}

FileContents == UNION {[1..n -> FileChars] : n \in 0..MaxFileLen}

IdleMain ==
    /\ environ = EmptyDict
    /\ file_exists = FALSE
    /\ json_output = FALSE
    /\ days = DefaultDays
    /\ packages = <<>>
    /\ idx = 1
    /\ results = <<>>
    /\ table = <<>>
    /\ total_all_time = 0
    /\ total_recent = 0
    /\ successful_packages = 0
    /\ output = <<>>
    /\ exit_code = <<>>
    /\ responses = <<>>
    /\ events = <<>>
    /\ replay = <<>>

InitLoader ==
    /\ IdleMain
    /\ pc = "called"
    /\ call \in {<<[exists |-> TRUE, text |-> t]>> : t \in FileContents}
                \cup {<<[exists |-> FALSE, text |-> <<>>]>>}
    /\ ret = <<>>

\* if not file_path.exists(): raise typer.Exit(1)
LoaderExits ==
    /\ pc = "called"
    /\ ~call[1].exists
    /\ pc' = "exit"
    /\ exit_code' = <<1>>
    /\ UNCHANGED <<environ, file_exists, json_output, days, packages, idx, results,
                   table, total_all_time, total_recent, successful_packages,
                   output, responses, events, replay, call, ret>>

LoaderReturns ==
    /\ pc = "called"
    /\ call[1].exists
    /\ ret' = <<read_packages_from_file(call[1].text)>>
    /\ pc' = "returned"
    /\ UNCHANGED <<mainVars_but_pc, call>>

NextLoader == LoaderExits \/ LoaderReturns

SpecLoader == InitLoader /\ [][NextLoader]_vars

(***************************************************************************)
(* get_recent_downloads called alone, on every small breakdown.            *)
(***************************************************************************)
\* date keys as code points: "2" < "9" as numbers and as str, but "10" < "2"
\* as str only
DateKeys == {<<2>>, <<9>>, <<1, 0>>}

Versions == {"v1", "v2"}

DailyDownloads == UNION {[V -> 1..MaxCount] : V \in SUBSET Versions}

Breakdowns == UNION {[D -> DailyDownloads] : D \in SUBSET DateKeys}

InitRecent ==
    /\ IdleMain
    /\ pc = "called"
    /\ call \in {<<[downloads |-> b, days |-> n]>> : b \in Breakdowns, n \in 0..MaxWindow}
    /\ ret = <<>>

RecentReturns ==
    /\ pc = "called"
    /\ ret' = <<get_recent_downloads(call[1].downloads, call[1].days)>>
    /\ pc' = "returned"
    /\ UNCHANGED <<mainVars_but_pc, call>>

NextRecent == RecentReturns

SpecRecent == InitRecent /\ [][NextRecent]_vars

(***************************************************************************)
(* What the specification says of the two functions, stated without the    *)
(* loops and the recursion of the code.                                    *)
(***************************************************************************)
\* a before b as strings: a is a proper prefix of b, or they first differ
\* at a position where a has the smaller code point
StringBefore(a, b) ==
    \/ Len(a) < Len(b) /\ \A i \in 1..Len(a) : a[i] = b[i]
    \/ \E i \in 1..Min(Len(a), Len(b)) :
          /\ a[i] < b[i]
          /\ \A j \in 1..(i - 1) : a[j] = b[j]

\* the n greatest date keys of a breakdown
NewestDates(downloads, n) ==
    {d \in DOMAIN downloads :
        Cardinality({e \in DOMAIN downloads : StringBefore(d, e)}) < n}

RECURSIVE SumOfCounts(_, _)
SumOfCounts(downloads, cells) ==
    IF cells = {} THEN 0
    ELSE LET c == CHOOSE x \in cells : TRUE
         IN  downloads[c[1]][c[2]] + SumOfCounts(downloads, cells \ {c})

\* the sum of every per-version count of the dates in `dates`
CountsOver(downloads, dates) ==
    SumOfCounts(downloads,
                UNION {{<<d, v>> : v \in DOMAIN downloads[d]} : d \in dates})

WindowSum(downloads, n) == CountsOver(downloads, NewestDates(downloads, n))

\* C4: for every breakdown and every window N >= 0, get_recent_downloads
\* returns the sum of all per-version counts over the N greatest date keys,
\* keys compared as strings: over all dates when there are fewer than N,
\* and 0 for the empty breakdown.
C4_RecentIsSumOverNewestDates ==
    pc = "returned" =>
        LET downloads == call[1].downloads
            n == call[1].days
        IN  /\ ret = <<WindowSum(downloads, n)>>
            /\ Cardinality(DOMAIN downloads) <= n
                  => ret = <<CountsOver(downloads, DOMAIN downloads)>>
            /\ DOMAIN downloads = {} => ret = <<0>>

\* three dates, window 2: the oldest date as a string, "10", has counts that
\* are left out
C4_Witness ==
    /\ pc = "returned"
    /\ DOMAIN call[1].downloads = DateKeys
    /\ call[1].days = 2
    /\ call[1].downloads[<<1, 0>>] = [v1 |-> 2, v2 |-> 1]
    /\ call[1].downloads[<<2>>] = [v1 |-> 1]
    /\ call[1].downloads[<<9>>] = [v2 |-> 2]
    /\ ret = <<3>>

\* the lines of a text: what lies between two successive "\n"
LineBreaks(text) == {i \in 1..Len(text) : text[i] = "\n"}

LineOf(text, k) ==
    LET before == {i \in LineBreaks(text) :
                      Cardinality({j \in LineBreaks(text) : j <= i}) = k - 1}
        after  == {i \in LineBreaks(text) :
                      Cardinality({j \in LineBreaks(text) : j <= i}) = k}
        from   == IF before = {} THEN 1 ELSE (CHOOSE i \in before : TRUE) + 1
        to     == IF after = {} THEN Len(text) ELSE (CHOOSE i \in after : TRUE) - 1
    IN  SubSeq(text, from, to)

\* a line without its leading and trailing whitespace
Trimmed(line) ==
    LET inked == {i \in 1..Len(line) : line[i] \notin {" ", "\n", "\t"}}
    IN  IF inked = {} THEN <<>>
        ELSE SubSeq(line, CHOOSE i \in inked : \A j \in inked : i <= j,
                          CHOOSE i \in inked : \A j \in inked : i >= j)

NotEmpty(line) == line # <<>>

ExpectedPackages(text) ==
    SelectSeq([k \in 1..(Cardinality(LineBreaks(text)) + 1) |->
                  Trimmed(LineOf(text, k))], NotEmpty)

\* C9: for every existing file, read_packages_from_file returns its lines
\* that are non-empty once stripped, each stripped, in file order and
\* without deduplication; a file of blank lines only yields the empty list.
C9_LoaderKeepsStrippedNonBlankLines ==
    pc = "returned" =>
        /\ ret = <<ExpectedPackages(call[1].text)>>
        /\ (\A i \in 1..Len(call[1].text) : call[1].text[i] \in {" ", "\n"})
              => ret = <<<<>>>>

\* "a\n a": the name twice, the second after a blank
C9_Witness ==
    /\ pc = "returned"
    /\ call[1].text = <<"a", "\n", " ", "a">>
    /\ ret = << <<<<"a">>, <<"a">>>> >>

(***************************************************************************)
(* What the specification says of a run, stated over the history of the    *)
(* responses.                                                              *)
(***************************************************************************)
\* the fetch ended in the Success variant: a parsed payload, which is a
\* dict without an "error" key
IsSuccess(response) ==
    /\ ~response.raised
    /\ response.status_code = 200
    /\ "error" \notin DOMAIN response.json

TotalOf(response) ==
    IF IsSuccess(response) /\ "total_downloads" \in DOMAIN response.json
    THEN response.json.total_downloads ELSE 0

RecentOf(response, n) ==
    IF IsSuccess(response) /\ "downloads" \in DOMAIN response.json
    THEN WindowSum(response.json.downloads, n) ELSE 0

RECURSIVE SumOfTotals(_)
SumOfTotals(history) ==
    IF history = <<>> THEN 0
    ELSE TotalOf(Head(history)) + SumOfTotals(Tail(history))

RECURSIVE SumOfRecents(_, _)
SumOfRecents(history, n) ==
    IF history = <<>> THEN 0
    ELSE RecentOf(Head(history), n) + SumOfRecents(Tail(history), n)

Successes(history) == {i \in 1..Len(history) : IsSuccess(history[i])}

Failures(history) ==
    {i \in 1..Len(history) : ~history[i].raised /\ ~IsSuccess(history[i])}

C8_EntryOf(entry, package, response) ==
    /\ entry["package"] = Str(package)
    /\ IF IsSuccess(response)
       THEN /\ DOMAIN entry = {"package", "total_downloads", LastDaysKey(days)}
            /\ Len(entry["total_downloads"]) = 1
            /\ entry["total_downloads"][1] \in Nat
            /\ entry["total_downloads"][1] = TotalOf(response)
            /\ Len(entry[LastDaysKey(days)]) = 1
            /\ entry[LastDaysKey(days)][1] = RecentOf(response, days)
       ELSE /\ DOMAIN entry =
                  {"package", "error", "total_downloads", LastDaysKey(days)}
            /\ entry["total_downloads"] = <<>>
            /\ entry[LastDaysKey(days)] = <<>>
            /\ entry["error"] = get_package_stats(package, response).error

C5_FatalPreconditionsStopBeforeNetwork ==
    LET absent == \/ "PEPY_API_KEY" \notin DOMAIN environ
                  \/ environ["PEPY_API_KEY"] = ""
    IN  /\ absent => /\ pc \in {"start", "exit"}
                     /\ events = <<>>
        /\ (~absent /\ ~file_exists) => pc \in {"start", "read", "exit"}
        /\ (absent \/ ~file_exists) =>
              /\ responses = <<>>
              /\ \A i \in 1..Len(events) : events[i].op \notin {"fetch", "pause", "report"}
              /\ output = <<>>
              /\ pc # "done"
              /\ exit_code \in {<<>>, <<1>>}
              /\ pc = "exit" <=> exit_code = <<1>>
        /\ pc = "exit" => (absent \/ ~file_exists)

\* an empty credential, the file present: ended with status 1, file unread
C5_Witness ==
    /\ pc = "exit"
    /\ environ = [PEPY_API_KEY |-> ""]
    /\ file_exists
    /\ exit_code = <<1>>
    /\ events = <<>>

RECURSIVE ArgsOf(_, _)
ArgsOf(history, op) ==
    IF history = <<>> THEN <<>>
    ELSE (IF Head(history).op = op THEN <<Head(history).arg>> ELSE <<>>)
         \o ArgsOf(Tail(history), op)

\* the names of the report's per-package outcomes, in the report's order
ReportedPackages ==
    IF json_output
    THEN [i \in 1..Len(output[1].packages) |-> output[1].packages[i]["package"]]
    ELSE [i \in 1..Len(output[1].rows) |-> output[1].rows[i][1]]

\* C2: past the two preconditions, the driver issues exactly one fetch per
\* identifier, in file order and never twice, whatever the earlier fetches
\* returned; no returned error ends the run (only a fetch that raises
\* does); the run ends with status zero, and the outcomes of the report are
\* one per identifier, in the order of the input.
C2_OneFetchPerIdentifierInOrder ==
    LET fetched == ArgsOf(events, "fetch")
    IN  /\ Len(fetched) <= Len(packages)
        /\ fetched = SubSeq(packages, 1, Len(fetched))
        /\ Len(responses) = Len(fetched)
        /\ pc = "crashed" => responses[Len(responses)].raised
        /\ (\E i \in 1..Len(responses) : responses[i].raised) => pc = "crashed"
        /\ pc \in {"json_sleep", "table_sleep"} => idx = Len(fetched)
        /\ pc \in {"json_loop", "table_loop"} => idx = Len(fetched) + 1
        /\ pc \notin {"exit", "done", "crashed"} => exit_code = <<>> /\ ENABLED Next
        /\ pc = "done" =>
              /\ exit_code = <<0>>
              /\ fetched = packages
              /\ ReportedPackages = [i \in 1..Len(packages) |-> Str(packages[i])]

\* three packages answered 404, 429 and 500: the run ends with status zero
C2_Witness ==
    /\ pc = "done"
    /\ exit_code = <<0>>
    /\ Len(packages) = 3
    /\ responses[1].status_code = 404
    /\ responses[2].status_code = 429
    /\ responses[3].status_code = 500
    /\ ArgsOf(events, "fetch") = packages

IsFetchOrPause(e) == e.op \in {"fetch", "pause"}

\* C6: in both modes every fetch is followed by exactly one pause before
\* the next fetch, whether it succeeded or returned an error: fetches and
\* pauses alternate strictly, and a run over n identifiers makes n pauses,
\* the last one before the report.
C6_FetchAndPauseAlternate ==
    LET net == SelectSeq(events, IsFetchOrPause)
    IN  /\ \A i \in 1..Len(net) :
              net[i].op = IF i % 2 = 1 THEN "fetch" ELSE "pause"
        /\ pc \in {"json_loop", "table_loop", "done"} => Len(net) % 2 = 0
        /\ pc \in {"json_sleep", "table_sleep"} =>
              /\ Len(net) % 2 = 1
              /\ ~responses[Len(responses)].raised
        /\ pc = "done" =>
              /\ Len(ArgsOf(events, "pause")) = Len(packages)
              /\ Len(ArgsOf(events, "fetch")) = Len(packages)
              /\ events[Len(events)].op = "report"
              /\ Len(packages) > 0 => events[Len(events) - 1].op = "pause"

\* a structured run of three packages, a success between two errors: three
\* pauses
C6_Witness ==
    /\ pc = "done"
    /\ json_output
    /\ Len(packages) = 3
    /\ Failures(responses) = {1, 3}
    /\ Successes(responses) = {2}
    /\ Len(ArgsOf(events, "pause")) = 3

\* C3: the outcome recorded for a package is decided by the status code
\* alone: 200 gives the parsed body, 404, 401, 429 and any other code give
\* their error message, and the loop takes a package for a success exactly
\* when its status was 200, whatever the 200 body holds.
C3_StatusAloneDecidesOutcome ==
    \A i \in 1..Len(responses) :
        ~responses[i].raised =>
            LET status == responses[i].status_code
                stats == get_package_stats(packages[i], responses[i])
            IN  /\ status = 200 => stats = responses[i].json
                /\ status = 404 =>
                      stats = [error |-> "Package '" \o Str(packages[i]) \o "' not found"]
                /\ status = 401 => stats = [error |-> "Invalid API key"]
                /\ status = 429 => stats = [error |-> "Rate limit exceeded"]
                /\ status \notin {200, 404, 401, 429} =>
                      stats = [error |-> "API error: " \o ToString(status)]
                /\ ShownAsSuccess[i] <=> status = 200

IsPrefix(a, b) == Len(a) <= Len(b) /\ a = SubSeq(b, 1, Len(a))

\* C10: on the same identifiers, window and responses the two loops make
\* the same fetches and pauses, take the same packages for successes and
\* end with the same two totals (and the same exit status).
C10_LoopsAreEquivalent ==
    replay # <<>> =>
        LET first == replay[1]
        IN  /\ json_output # first.json_output
            /\ IsPrefix(events, first.events)
            /\ \A i \in DOMAIN ShownAsSuccess :
                  ShownAsSuccess[i] = first.successes[i]
            /\ pc \in {"done", "crashed"} =>
                  /\ events = first.events
                  /\ ShownAsSuccess = first.successes
                  /\ total_all_time = first.total_all_time
                  /\ total_recent = first.total_recent
                  /\ exit_code = first.exit_code

\* a table run ended after a structured run of three packages, one failed
C10_Witness ==
    /\ replay # <<>>
    /\ pc = "done"
    /\ ~json_output
    /\ replay[1].json_output
    /\ Len(packages) = 3
    /\ Cardinality(Failures(responses)) = 1
    /\ days = DefaultDays
    /\ total_all_time = 3000
    /\ total_recent = 8
    /\ replay[1].total_recent = 8

====
